---------------------------- MODULE Spec2Model ----------------------------
(***************************************************************************)
(* Slack payment bot (src/main.py): a message event or a modal submission  *)
(* is turned into a payment record, a month folder and an entry folder are *)
(* resolved in Drive, the attachments are downloaded from Slack and        *)
(* uploaded, one row is appended to the spreadsheet and the outcome is     *)
(* reported back to Slack.                                                 *)
(*                                                                         *)
(* Strings are sequences of one-character strings, so that strip, replace, *)
(* strptime and strftime are computed and not assumed.                     *)
(***************************************************************************)
EXTENDS Integers, Sequences, FiniteSets, TLC

(***************************************************************************)
(* Bounds of the model.                                                    *)
(***************************************************************************)
\* number of webhook invocations (ingestions) in a run of several
NumIng == 2
\* largest number of attachments of the event of a single invocation
MaxFiles == 3
\* number of attachments, over all events, in a run of several invocations
RunFiles == 1
\* number of remote calls, over the whole run, that fail
MaxFaults == 1
\* number of month changes of the wall clock during the run
MaxTicks == 1
\* largest number of attachments of each of the two events that are compared
PairFiles == 2

(***************************************************************************)
(* Strings.                                                                *)
(***************************************************************************)
Digits == <<"0", "1", "2", "3", "4", "5", "6", "7", "8", "9">>

IsDigit(c) == \E k \in 1..10 : Digits[k] = c

DigitVal(c) == (CHOOSE k \in 1..10 : Digits[k] = c) - 1

\* str.strip() / re \s on the characters the inputs use
IsSpace(c) == c \in {" ", "\t", "\n", "\r"}

RECURSIVE LStrip(_)
LStrip(s) == IF s # <<>> /\ IsSpace(Head(s)) THEN LStrip(Tail(s)) ELSE s

RECURSIVE RStrip(_)
RStrip(s) ==
    IF s # <<>> /\ IsSpace(s[Len(s)]) THEN RStrip(SubSeq(s, 1, Len(s) - 1)) ELSE s

\* str.strip()
Strip(s) == RStrip(LStrip(s))

\* str.replace(a, b) for a one-character a; b is a string (possibly empty)
RECURSIVE Replace(_, _, _)
Replace(s, a, b) ==
    IF s = <<>> THEN <<>>
    ELSE (IF Head(s) = a THEN b ELSE <<Head(s)>>) \o Replace(Tail(s), a, b)

\* str.split(sep) for a one-character sep
RECURSIVE SplitFrom(_, _, _)
SplitFrom(s, sep, cur) ==
    IF s = <<>> THEN <<cur>>
    ELSE IF Head(s) = sep THEN <<cur>> \o SplitFrom(Tail(s), sep, <<>>)
    ELSE SplitFrom(Tail(s), sep, Append(cur, Head(s)))

Split(s, sep) == SplitFrom(s, sep, <<>>)

\* sep.join(parts)
RECURSIVE Join(_, _)
Join(parts, sep) ==
    IF parts = <<>> THEN <<>>
    ELSE IF Len(parts) = 1 THEN parts[1]
    ELSE parts[1] \o sep \o Join(Tail(parts), sep)

\* int(s) for a string of digits
RECURSIVE DigitsVal(_, _)
DigitsVal(s, acc) ==
    IF s = <<>> THEN acc ELSE DigitsVal(Tail(s), 10 * acc + DigitVal(Head(s)))

\* str(n) for n >= 0
RECURSIVE NumStr(_)
NumStr(n) == IF n < 10 THEN <<Digits[n + 1]>> ELSE NumStr(n \div 10) \o <<Digits[(n % 10) + 1]>>

\* "%02d" % n
Pad2(n) == IF n < 10 THEN <<"0">> \o NumStr(n) ELSE NumStr(n)

(***************************************************************************)
(* Dates: datetime.strptime and strftime.                                  *)
(***************************************************************************)
NoDate == [y |-> 0, m |-> 0, d |-> 0]

IsLeap(y) == (y % 4 = 0 /\ y % 100 # 0) \/ y % 400 = 0

DaysIn(y, m) ==
    IF m = 2 THEN (IF IsLeap(y) THEN 29 ELSE 28)
    ELSE IF m \in {4, 6, 9, 11} THEN 30 ELSE 31

AllDigits(s) == \A k \in 1..Len(s) : IsDigit(s[k])

\* a %m field of strptime: one or two digits, value 1..12;
\* a %d field: the same up to 31, or a blank followed by one digit
IsDayOrMonth(s, max) ==
    /\ Len(s) \in {1, 2}
    /\ \/ AllDigits(s)
       \/ max = 31 /\ Len(s) = 2 /\ s[1] = " " /\ IsDigit(s[2])
    /\ DigitsVal(LStrip(s), 0) \in 1..max

\* the date of valid fields, NoDate (ValueError) when datetime rejects them
MakeDate(ys, ms, ds) ==
    IF /\ Len(ys) = 4 /\ AllDigits(ys) /\ DigitsVal(ys, 0) >= 1
       /\ IsDayOrMonth(ms, 12)
       /\ IsDayOrMonth(ds, 31)
       /\ DigitsVal(LStrip(ds), 0) <= DaysIn(DigitsVal(ys, 0), DigitsVal(ms, 0))
    THEN [y |-> DigitsVal(ys, 0), m |-> DigitsVal(ms, 0), d |-> DigitsVal(LStrip(ds), 0)]
    ELSE NoDate

\* datetime.strptime(s, "%d/%m/%Y"); NoDate stands for ValueError
StrptimeDMY(s) ==
    LET p == Split(s, "/")
    IN  IF Len(p) = 3 THEN MakeDate(p[3], p[2], p[1]) ELSE NoDate

\* datetime.strptime(s, "%Y-%m-%d"); NoDate stands for ValueError
StrptimeYMD(s) ==
    LET p == Split(s, "-")
    IN  IF Len(p) = 3 THEN MakeDate(p[1], p[2], p[3]) ELSE NoDate

\* dt.strftime("%Y-%m-%d")
StrftimeYMD(dt) == NumStr(dt.y) \o <<"-">> \o Pad2(dt.m) \o <<"-">> \o Pad2(dt.d)

\* dt.strftime("%Y-%m")
StrftimeYM(dt) == NumStr(dt.y) \o <<"-">> \o Pad2(dt.m)

\* dt.strftime("%d/%m/%Y")
StrftimeDMY(dt) == Pad2(dt.d) \o <<"/">> \o Pad2(dt.m) \o <<"/">> \o NumStr(dt.y)

(***************************************************************************)
(* Folder names.                                                           *)
(***************************************************************************)
BadChars == {"\\", "/", ":", "*", "?", "\"", "<", ">", "|"}

\* sanitize_folder_name: re.sub(r'[\\/:*?"<>|]', "_", name).strip()
sanitize_folder_name(name) ==
    Strip([k \in 1..Len(name) |-> IF name[k] \in BadChars THEN "_" ELSE name[k]])

\* Python's None, the value of a JSON null: no string, and it has no strip()
None == <<"None">>

\* build_folder_name, line 383: fields.get(field, "").strip() raises
\* AttributeError when the field is there and holds None
strip_raises(fields) == \E f \in {"BANCO", "EMPRESA", "CL"} : fields[f] = None

\* the optional parts of build_folder_name, in the order BANCO, EMPRESA, CL
OptionalParts(fields) ==
    LET keep(v) == IF Strip(v) # <<>> THEN <<Strip(v)>> ELSE <<>>
    IN  keep(fields.BANCO) \o keep(fields.EMPRESA) \o keep(fields.CL)

\* the first part of build_folder_name: the ISO date, or the raw date with "/" -> "-"
DatePart(fields) ==
    LET dt == StrptimeDMY(Strip(fields.DATA))
    IN  IF dt # NoDate THEN StrftimeYMD(dt) ELSE Replace(fields.DATA, "/", <<"-">>)

build_folder_name(fields) ==
    sanitize_folder_name(
        Join(<<DatePart(fields), Replace(fields.VALOR, " ", <<>>)>> \o OptionalParts(fields),
             <<"_">>))

\* get_month_folder_name; clock is datetime.now()
get_month_folder_name(fields, clock) ==
    LET dt == StrptimeDMY(Strip(fields.DATA))
    IN  IF dt # NoDate THEN StrftimeYM(dt) ELSE StrftimeYM(clock)

(***************************************************************************)
(* Inbound events.                                                         *)
(***************************************************************************)
DateBR == <<"0", "4", "/", "0", "2", "/", "2", "0", "2", "5">>
DateISO == <<"2", "0", "2", "5", "-", "0", "2", "-", "0", "4">>
DateRaw == <<"4", "/", "2">>
Valor1 == <<"R", "$", " ", "1", ".", "5", "0", "0", ",", "0", "0">>
Valor2 == <<"1", "0">>
Banco1 == <<"I", "t", "a", "u">>
Empresa1 == <<"E", "m", "p", "r", "e", "s", "a", " ", "X", "Y", "Z">>
CL1 == <<"C", "C", "0", "0", "1">>

Fields(data, valor, banco, empresa, cl) ==
    [DATA |-> data, VALOR |-> valor, BANCO |-> banco, EMPRESA |-> empresa, CL |-> cl]

\* the text of a message event: the message of the module docstring, one
\* whose date is not DD/MM/YYYY and whose amount is followed by a blank, one
\* without VALOR, and one whose label DATA has no value on its line
Text1 ==
    <<"D", "A", "T", "A", ":", " ", "0", "4", "/", "0", "2", "/", "2", "0",
      "2", "5", "\n", "V", "A", "L", "O", "R", ":", " ", "R", "$", " ",
      "1", ".", "5", "0", "0", ",", "0", "0", "\n", "B", "A", "N", "C",
      "O", ":", " ", "I", "t", "a", "u", "\n", "E", "M", "P", "R", "E",
      "S", "A", ":", " ", "E", "m", "p", "r", "e", "s", "a", " ", "X", "Y",
      "Z", "\n", "C", "L", ":", " ", "C", "C", "0", "0", "1">>

Text2 ==
    <<"D", "A", "T", "A", ":", " ", "4", "/", "2", "\n", "V", "A", "L",
      "O", "R", ":", " ", "1", "0", " ">>

Text3 ==
    <<"D", "A", "T", "A", ":", " ", "0", "4", "/", "0", "2", "/", "2", "0",
      "2", "5", "\n", "B", "A", "N", "C", "O", ":", " ", "I", "t", "a",
      "u">>

Text4 ==
    <<"D", "A", "T", "A", ":", "\n", "V", "A", "L", "O", "R", ":", " ",
      "1", "0">>

MessageTexts == {Text1, Text2, Text3, Text4}

\* view.state.values of a modal submission (DATA is the datepicker's
\* selected_date); the fourth has an amount of one blank; in the last the
\* optional input cl_input was left unfilled, for which Slack sends
\* "value": null, so that .get("value", "") returns None
ModalValues ==
    { Fields(DateISO, Valor1, Banco1, Empresa1, CL1),
      Fields(DateRaw, Valor2, <<>>, <<>>, <<>>),
      Fields(DateISO, <<>>, Banco1, <<>>, <<>>),
      Fields(DateISO, <<" ">>, <<>>, <<>>, <<>>),
      Fields(DateISO, Valor1, Banco1, Empresa1, None) }

\* channel ids
ChanC1 == <<"C", "1">>
ChanC2 == <<"C", "2">>

\* the channel_id field of the form of a slash command
CommandChannels == {ChanC1, ChanC2}

\* json.dumps of a str, without its quotes: a quote and a backslash are escaped
RECURSIVE json_escape(_)
json_escape(s) ==
    IF s = <<>> THEN <<>>
    ELSE (IF Head(s) \in {"\"", "\\"} THEN <<"\\", Head(s)>> ELSE <<Head(s)>>)
         \o json_escape(Tail(s))

\* the body of a JSON string up to its closing quote: ok is false when the
\* text ends before the quote or an escape is not one of \" and \\
RECURSIVE json_string(_, _)
json_string(s, acc) ==
    IF s = <<>> THEN [ok |-> FALSE, val |-> acc, rest |-> <<>>]
    ELSE IF Head(s) = "\"" THEN [ok |-> TRUE, val |-> acc, rest |-> Tail(s)]
    ELSE IF Head(s) = "\\"
    THEN IF Len(s) >= 2 /\ s[2] \in {"\"", "\\"}
         THEN json_string(Tail(Tail(s)), Append(acc, s[2]))
         ELSE [ok |-> FALSE, val |-> acc, rest |-> <<>>]
    ELSE json_string(Tail(s), Append(acc, Head(s)))

ChannelKey == <<"\"", "c", "h", "a", "n", "n", "e", "l", "_", "i", "d", "\"">>

\* a bug: the modal is opened without private_metadata
private_metadata_unset(channel_id) == <<>>

\* handle_slash_command, line 547: json.dumps({"channel_id": channel_id})
private_metadata(channel_id) ==
    <<"{">> \o ChannelKey \o <<":", " ", "\"">> \o json_escape(channel_id) \o <<"\"", "}">>

\* handle_modal_submission, lines 610-615: json.loads(private_metadata) and
\* .get("channel_id", ""), for the text of an object with at most one member
\* whose value is a string; "" for an object without the key and for a text
\* that json.loads rejects (JSONDecodeError)
metadata_channel(text) ==
    LET t == Strip(text)
        inner == Strip(SubSeq(t, 2, Len(t) - 1))
        afterKey == LStrip(SubSeq(inner, Len(ChannelKey) + 1, Len(inner)))
        value == LStrip(Tail(afterKey))
        str == json_string(Tail(value), <<>>)
    IN  IF Len(t) < 2 \/ t[1] # "{" \/ t[Len(t)] # "}" THEN <<>>
        ELSE IF Len(inner) < Len(ChannelKey) THEN <<>>
        ELSE IF SubSeq(inner, 1, Len(ChannelKey)) # ChannelKey THEN <<>>
        ELSE IF afterKey = <<>> \/ Head(afterKey) # ":" THEN <<>>
        ELSE IF value = <<>> \/ Head(value) # "\"" THEN <<>>
        ELSE IF str.ok /\ str.rest = <<>> THEN str.val ELSE <<>>

\* view.private_metadata of a submission whose modal was opened before the
\* run: by a slash command in C1, and by something that set no metadata (the
\* code reads the default "{}")
PriorMetadata == {private_metadata(ChanC1), <<"{", "}">>}

\* the envelope of an event: event.type, whether event.bot_id is set,
\* event.subtype ("" when absent), whether the X-Slack-Retry-Num header is set
Envelope(type, bot, subtype, retry) ==
    [type |-> type, bot |-> bot, subtype |-> subtype, retry |-> retry]

NoEvent == Envelope("none", FALSE, "", FALSE)

\* the event of a message a user wrote with n attachments: Slack marks a
\* message that carries files with the subtype file_share
UserMessage(n) == Envelope("message", FALSE, IF n > 0 THEN "file_share" ELSE "", FALSE)

\* other events the endpoint receives: a message the bot itself posted (its
\* replies and summaries come back with bot_id set), an edit, a reaction, and
\* a delivery that Slack repeats
OtherEvents ==
    { Envelope("message", TRUE, "", FALSE),
      Envelope("message", FALSE, "message_changed", FALSE),
      Envelope("reaction_added", FALSE, "", FALSE),
      Envelope("message", FALSE, "", TRUE) }

\* a bug: the check of bot_id is missing
processes_event_bots_too(ev) ==
    /\ ~ev.retry
    /\ ev.type = "message"
    /\ ev.subtype \in {"", "file_share"}

\* a bug: the check of the retry header is missing
processes_event_retries_too(ev) ==
    /\ ev.type = "message"
    /\ ~ev.bot
    /\ ev.subtype \in {"", "file_share"}

\* slack_webhook, lines 798-815: the event goes on to extract_fields
processes_event(ev) ==
    /\ ~ev.retry
    /\ ev.type = "message"
    /\ ~ev.bot
    /\ ev.subtype \in {"", "file_share"}

\* the payload field of a request to /slack/interactions: a view_submission of
\* the payment modal, one of another view, another interaction type, and a
\* string that is not JSON
InteractionPayloads == {"pagamento_modal", "other_view", "block_actions", "not_json"}

\* handle_interaction and handle_modal_submission up to line 578: where the
\* payload leads; json.loads (line 562) is in no try block
interaction_route(p) ==
    IF p = "not_json" THEN "raised"
    ELSE IF p = "pagamento_modal" THEN "modal"
    ELSE "done"

\* the command field of a request to /slack/commands
SlashCommands == {"/pagamento", "/outro"}

\* a request to /slack/commands or /slack/interactions: only the header
\* X-Slack-Retry-Num of its envelope matters, and no code on these paths reads it
OtherRequest(retry) == Envelope("none", FALSE, "", retry)

\* whether a submission may carry the retry header: the repeated submissions
\* considered are those of the complete record, without attachments, from a
\* modal opened before the run
SubmissionRetries(values, n, view) ==
    IF n = 0 /\ view.by = 0 /\ values.CL = CL1 THEN BOOLEAN ELSE {FALSE}

\* the letters, for re.IGNORECASE
LowerCase ==
    <<"a", "b", "c", "d", "e", "f", "g", "h", "i", "j", "k", "l", "m",
      "n", "o", "p", "q", "r", "s", "t", "u", "v", "w", "x", "y", "z">>

UpperCase ==
    <<"A", "B", "C", "D", "E", "F", "G", "H", "I", "J", "K", "L", "M",
      "N", "O", "P", "Q", "R", "S", "T", "U", "V", "W", "X", "Y", "Z">>

Upper(c) ==
    IF \E k \in 1..26 : LowerCase[k] = c
    THEN UpperCase[CHOOSE k \in 1..26 : LowerCase[k] = c]
    ELSE c

\* the label each pattern of FIELD_PATTERNS starts with; every pattern is
\* LABEL\s*[:\-]\s*(.+?)(?:\n|$)
FIELD_PATTERNS ==
    [DATA |-> <<"D", "A", "T", "A">>,
     VALOR |-> <<"V", "A", "L", "O", "R">>,
     BANCO |-> <<"B", "A", "N", "C", "O">>,
     EMPRESA |-> <<"E", "M", "P", "R", "E", "S", "A">>,
     CL |-> <<"C", "L">>]

\* the label matches the text at position p, whatever the case of the letters
LabelAt(label, text, p) ==
    /\ p + Len(label) - 1 <= Len(text)
    /\ \A k \in 1..Len(label) : Upper(text[p + k - 1]) = label[k]

\* \s*, greedy: the position after the run of whitespace that starts at p
\* (\s matches the line break too)
RECURSIVE SkipSpace(_, _)
SkipSpace(text, p) ==
    IF p <= Len(text) /\ IsSpace(text[p]) THEN SkipSpace(text, p + 1) ELSE p

\* (.+?)(?:\n|$) from position p: the last position before the next line
\* break or the end of the text (a dot does not match a line break)
RECURSIVE LineEnd(_, _)
LineEnd(text, p) ==
    IF p + 1 <= Len(text) /\ text[p + 1] # "\n" THEN LineEnd(text, p + 1) ELSE p

\* the position of the separator [:\-] of a match of the label at p, 0 for none
SeparatorAt(label, text, p) ==
    LET sep == SkipSpace(text, p + Len(label))
    IN  IF LabelAt(label, text, p) /\ sep <= Len(text) /\ text[sep] \in {":", "-"}
        THEN sep ELSE 0

\* where group 1 starts when the separator is at sep, 0 when the pattern does
\* not match there: \s* takes the whole run of whitespace and gives back one
\* character at a time until a character that is no line break follows
GroupStart(text, sep) ==
    LET cand == {g \in (sep + 1)..SkipSpace(text, sep + 1) :
                    g <= Len(text) /\ text[g] # "\n"}
    IN  IF cand = {} THEN 0 ELSE CHOOSE g \in cand : \A h \in cand : h <= g

\* re.search(pattern, text, re.IGNORECASE): group 1 of the leftmost match,
\* found false when there is none
re_search(label, text) ==
    LET matches == {p \in 1..Len(text) :
                       /\ SeparatorAt(label, text, p) # 0
                       /\ GroupStart(text, SeparatorAt(label, text, p)) # 0}
        first == CHOOSE p \in matches : \A q \in matches : p <= q
        start == GroupStart(text, SeparatorAt(label, text, first))
    IN  IF matches = {} THEN [found |-> FALSE, group |-> <<>>]
        ELSE [found |-> TRUE, group |-> SubSeq(text, start, LineEnd(text, start))]

\* extract_fields: match.group(1).strip() if match else ""
extract_fields(text) ==
    [f \in DOMAIN FIELD_PATTERNS |->
        LET match == re_search(FIELD_PATTERNS[f], text)
        IN  IF match.found THEN Strip(match.group) ELSE <<>>]

\* a bug: REQUIRED_FIELDS holds DATA only
has_required_fields_data_only(fields) == fields.DATA # <<>>

\* has_required_fields: all(fields.get(f) for f in REQUIRED_FIELDS)
has_required_fields(fields) == fields.DATA # <<>> /\ fields.VALOR # <<>>

\* handle_modal_submission: selected_date YYYY-MM-DD -> DD/MM/YYYY, raw on ValueError
modal_fields(values) ==
    LET dt == StrptimeYMD(values.DATA)
        data_br == IF values.DATA = <<>> THEN <<>>
                   ELSE IF dt # NoDate THEN StrftimeDMY(dt) ELSE values.DATA
    IN  [values EXCEPT !.DATA = data_br]

\* process_modal_submission: not fields.get("DATA") or not fields.get("VALOR")
modal_missing_required(fields) == fields.DATA = <<>> \/ fields.VALOR = <<>>

(***************************************************************************)
(* State.                                                                  *)
(***************************************************************************)
Ing == 1..NumIng

VARIABLES
    pc,        \* pc[i]: the statement invocation i is at; done when the handler
               \* has returned its response, raised when an exception left it
    inp,       \* inp[i]: path, fields, number of attachments, channel, envelope,
               \* for a message its text, for a submission the invocation
               \* that opened its modal, for a slash command the command
    loc,       \* loc[i]: the local variables of the handler
    folders,   \* Drive: the folders, in creation order; the id is the index
    uploads,   \* Drive: uploads[i] the files uploaded by ingestion i, in order
    sheet,     \* Sheets: the rows of the tab, first row first
    slack,     \* Slack: slack[i] the API calls made for ingestion i, in order
    outcome,   \* outcome[i]: none, ignored, dropped, success or failure
    now,       \* datetime.now(), to the month
    ticks,     \* month changes so far
    faults     \* failed remote calls so far

vars == <<pc, inp, loc, folders, uploads, sheet, slack, outcome, now, ticks, faults>>

\* GOOGLE_DRIVE_FOLDER_ID, the root container
RootId == 0

HeaderRow == [kind |-> "header"]

NoInput == [path |-> "none", fields |-> Fields(<<>>, <<>>, <<>>, <<>>, <<>>),
            nfiles |-> 0, channel |-> <<>>, ev |-> NoEvent, opener |-> 0,
            command |-> "", text |-> <<>>]

\* the locals of a handler before it runs; calls, created, tried, got and ups
\* record what the handler has done: the services called, the ids of the folders
\* created, the attachments taken up, those downloaded with status 200 and the
\* number of uploads that returned
NoLocals ==
    [monthName |-> <<>>, folderName |-> <<>>, monthId |-> 0, folderId |-> 0,
     link |-> 0, idx |-> 0, downloaded |-> <<>>, fileCount |-> 0, err |-> "none",
     calls |-> {}, created |-> {}, tried |-> {}, got |-> <<>>, ups |-> 0]

\* a fresh deployment: empty Drive root, empty tab, February 2025
Init ==
    /\ pc = [i \in Ing |-> "idle"]
    /\ inp = [i \in Ing |-> NoInput]
    /\ loc = [i \in Ing |-> NoLocals]
    /\ folders = <<>>
    /\ uploads = [i \in Ing |-> <<>>]
    /\ sheet = <<>>
    /\ slack = [i \in Ing |-> <<>>]
    /\ outcome = [i \in Ing |-> "none"]
    /\ now = [y |-> 2025, m |-> 2, d |-> 1]
    /\ ticks = 0
    /\ faults = 0

(***************************************************************************)
(* The remote stores, as the calls of the code see them.                   *)
(***************************************************************************)
\* a bug: the find never sees a folder
FolderMatchesNone(name, parent) == {}

\* a bug: the find ignores the parent
FolderMatchesAnyParent(name, parent) == {k \in 1..Len(folders) : folders[k].name = name}

\* drive.files().list(q = name, parent, folder, not trashed): the ids that match
FolderMatches(name, parent) ==
    {k \in 1..Len(folders) : folders[k].name = name /\ folders[k].parent = parent}

\* values().get(range = A1:G1): true when the first row holds no value
FirstRowEmpty(sh) == sh = <<>>

\* values().update(range = A1:G1, body = headers): the first row is overwritten
UpdateFirstRow(sh, row) == IF sh = <<>> THEN <<row>> ELSE [sh EXCEPT ![1] = row]

\* values().append(range = A:G, insertDataOption = INSERT_ROWS): after the last row
AppendRow(sh, row) == Append(sh, row)

\* a remote call may fail while the run has failures left
MayFail == faults < MaxFaults

(***************************************************************************)
(* Control flow of the two handlers.                                       *)
(***************************************************************************)
\* a bug: the except blocks log the exception and report nothing
ExceptTargetSilent(in) == "done"

\* the statement after an exception is caught: slack_webhook's except block
\* (reaction, then reply); process_modal_submission's (a post if channel_id)
ExceptTarget(in) ==
    IF in.path = "message" THEN "react_fail"
    ELSE IF in.channel # <<>> THEN "post_fail" ELSE "done"

\* the statement after append_to_sheets returns
NotifyTarget(in) ==
    IF in.path = "message" THEN "react_ok"
    ELSE IF in.channel # <<>> THEN "post_ok" ELSE "done"

\* the statement after create_lancamento_folder returns
FilesTarget(in) ==
    IF in.nfiles = 0 THEN "append"
    ELSE IF in.path = "message" THEN "download" ELSE "file_info"

\* a bug: the loop over files_data is left after its first turn
NextFileTargetBreak(in, k) == "append"

\* the modal's loop over files_data: the next file, or append_to_sheets
NextFileTarget(in, k) == IF k < in.nfiles THEN "file_info" ELSE "append"

\* a bug: the reply of the except block is sent after the success reaction too
AfterReactionMixed(p) == "reply_fail"

\* slack_webhook: the reply follows the reaction, in the try and in the except block
AfterReaction(p) == IF p = "react_ok" THEN "reply_ok" ELSE "reply_fail"

\* the remote service an API call goes to
Service(api) ==
    IF api = "google.build" THEN "google"
    ELSE IF api \in {"sheets.get", "sheets.update", "sheets.append"} THEN "sheets"
    ELSE IF api \in {"slack.files.info", "slack.download"} THEN "slack.files"
    ELSE "drive"

\* the locals after a call of api was made (calls records the services called)
Called(l, api) == [l EXCEPT !.calls = @ \cup {Service(api)}]

\* a bug: the except block deletes the files the ingestion has uploaded
ExceptFrameRollback(i) == folders' = folders /\ uploads' = [uploads EXCEPT ![i] = <<>>]

\* what the except blocks do to Drive: nothing is deleted, nothing is undone
ExceptFrame(i) == folders' = folders /\ uploads' = uploads

\* the call api of ingestion i raises: control goes to the except block, e = api
Raise(i, api) ==
    /\ MayFail
    /\ faults' = faults + 1
    /\ pc' = [pc EXCEPT ![i] = ExceptTarget(inp[i])]
    /\ loc' = [loc EXCEPT ![i] = [Called(@, api) EXCEPT !.err = api]]
    /\ outcome' = [outcome EXCEPT ![i] = "failure"]
    /\ ExceptFrame(i)

\* slack_webhook, lines 798-831: an event arrives; one that passes the filter
\* has its fields extracted, any other is answered at once
ReceiveMessage(i, maxn) ==
    /\ pc[i] = "idle"
    /\ \E text \in MessageTexts, n \in 0..maxn :
       \E ev \in {UserMessage(n)} \cup OtherEvents :
         LET fields == extract_fields(text)
         IN  IF ~processes_event(ev)
             THEN /\ inp' = [inp EXCEPT ![i] = [NoInput EXCEPT !.path = "event", !.ev = ev]]
                  /\ pc' = [pc EXCEPT ![i] = "done"]
                  /\ outcome' = [outcome EXCEPT ![i] = "ignored"]
             ELSE /\ inp' = [inp EXCEPT ![i] = [path |-> "message", fields |-> fields,
                                                nfiles |-> n, channel |-> ChanC1, ev |-> ev,
                                                opener |-> 0, command |-> "", text |-> text]]
                  /\ IF has_required_fields(fields)
                     THEN /\ pc' = [pc EXCEPT ![i] = "services"]
                          /\ UNCHANGED outcome
                     ELSE /\ pc' = [pc EXCEPT ![i] = "done"]
                          /\ outcome' = [outcome EXCEPT ![i] = "dropped"]
    /\ UNCHANGED <<loc, folders, uploads, sheet, slack, now, ticks, faults>>

\* the modals a submission can come from: those opened before the run, and
\* those a slash command of the run opened (views.open answered ok); Slack
\* sends the view's private_metadata back as it was stored
OpenModals ==
    {[by |-> 0, meta |-> m] : m \in PriorMetadata}
    \cup {[by |-> j, meta |-> slack[j][1].meta] :
            j \in {k \in Ing : /\ inp[k].path = "command" /\ slack[k] # <<>>
                               /\ slack[k][1].delivered}}

\* handle_interaction, handle_modal_submission and process_modal_submission,
\* lines 650-655: a request to /slack/interactions arrives
ReceiveModal(i, maxn) ==
    /\ pc[i] = "idle"
    /\ \E p \in InteractionPayloads, v \in ModalValues, n \in 0..maxn, view \in OpenModals :
       \E retry \in SubmissionRetries(v, n, view) :
         LET fields == modal_fields(v)
             ch == metadata_channel(view.meta)
         IN  IF interaction_route(p) # "modal"
             THEN /\ inp' = [inp EXCEPT ![i] = [NoInput EXCEPT !.path = "interaction"]]
                  /\ pc' = [pc EXCEPT ![i] = interaction_route(p)]
                  /\ outcome' = [outcome EXCEPT ![i] = "ignored"]
             ELSE /\ inp' = [inp EXCEPT ![i] = [path |-> "modal", fields |-> fields,
                                                nfiles |-> n, channel |-> ch,
                                                ev |-> OtherRequest(retry),
                                                opener |-> view.by, command |-> "",
                                                text |-> <<>>]]
                  /\ IF modal_missing_required(fields)
                     THEN /\ pc' = [pc EXCEPT ![i] = IF ch # <<>> THEN "post_invalid" ELSE "done"]
                          /\ outcome' = [outcome EXCEPT ![i] = "dropped"]
                     ELSE /\ pc' = [pc EXCEPT ![i] = "services"]
                          /\ UNCHANGED outcome
    /\ UNCHANGED <<loc, folders, uploads, sheet, slack, now, ticks, faults>>

\* handle_slash_command: /pagamento opens the modal with views.open, whose
\* failure open_slack_modal logs and swallows; the answer is a text either way
HandleSlashCommand(i) ==
    /\ pc[i] = "idle"
    /\ \E cmd \in SlashCommands, channel_id \in CommandChannels, opened, retry \in BOOLEAN :
         /\ inp' = [inp EXCEPT ![i] = [NoInput EXCEPT !.path = "command",
                                                      !.channel = channel_id,
                                                      !.ev = OtherRequest(retry),
                                                      !.command = cmd]]
         /\ IF cmd = "/pagamento"
            THEN /\ opened \/ MayFail
                 /\ faults' = IF opened THEN faults ELSE faults + 1
                 /\ slack' = [slack EXCEPT ![i] = Append(@,
                        [api |-> "views.open", kind |-> "form", channel |-> channel_id,
                         link |-> 0, count |-> 0, err |-> "none", delivered |-> opened,
                         meta |-> private_metadata(channel_id)])]
            ELSE /\ opened
                 /\ UNCHANGED <<faults, slack>>
    /\ pc' = [pc EXCEPT ![i] = "done"]
    /\ outcome' = [outcome EXCEPT ![i] = "ignored"]
    /\ UNCHANGED <<loc, folders, uploads, sheet, now, ticks>>

\* get_services()
GetServices(i) ==
    /\ pc[i] = "services"
    /\ UNCHANGED <<inp, sheet, slack, now, ticks>>
    /\ \/ /\ pc' = [pc EXCEPT ![i] = "hdr_get"]
          /\ loc' = [loc EXCEPT ![i] = Called(@, "google.build")]
          /\ UNCHANGED <<folders, uploads, outcome, faults>>
       \/ Raise(i, "google.build")

\* ensure_headers: the read of A1:G1; an exception is logged and swallowed
EnsureHeadersGet(i) ==
    /\ pc[i] = "hdr_get"
    /\ loc' = [loc EXCEPT ![i] = Called(@, "sheets.get")]
    /\ UNCHANGED <<inp, folders, uploads, sheet, slack, outcome, now, ticks>>
    /\ \/ /\ pc' = [pc EXCEPT ![i] = IF FirstRowEmpty(sheet) THEN "hdr_update"
                                     ELSE "month_find"]
          /\ UNCHANGED faults
       \/ /\ MayFail
          /\ faults' = faults + 1
          /\ pc' = [pc EXCEPT ![i] = "month_find"]

\* ensure_headers: the write of the header row; an exception is logged and swallowed
EnsureHeadersUpdate(i) ==
    /\ pc[i] = "hdr_update"
    /\ pc' = [pc EXCEPT ![i] = "month_find"]
    /\ loc' = [loc EXCEPT ![i] = Called(@, "sheets.update")]
    /\ UNCHANGED <<inp, folders, uploads, slack, outcome, now, ticks>>
    /\ \/ /\ sheet' = UpdateFirstRow(sheet, HeaderRow)
          /\ UNCHANGED faults
       \/ /\ MayFail
          /\ faults' = faults + 1
          /\ UNCHANGED sheet

\* a bug: the entry folder's name carries the month of the wall clock
FolderNameStamped(i) ==
    IF pc[i] = "month_find" THEN get_month_folder_name(inp[i].fields, now)
    ELSE build_folder_name(inp[i].fields) \o <<"_">> \o StrftimeYM(now)

\* create_lancamento_folder: month_name, then lancamento_name
FolderName(i) ==
    IF pc[i] = "month_find" THEN get_month_folder_name(inp[i].fields, now)
    ELSE build_folder_name(inp[i].fields)

\* a bug: the entry folder is looked up and created in the root
FolderParentRoot(i) == RootId

\* the parent find_or_create_folder is called with
FolderParent(i) ==
    IF pc[i] \in {"month_find", "month_create"} THEN RootId ELSE loc[i].monthId

\* the locals of create_lancamento_folder with the name it has just derived
Named(i) ==
    IF pc[i] = "month_find" THEN [loc[i] EXCEPT !.monthName = FolderName(i)]
    ELSE IF pc[i] = "entry_find" THEN [loc[i] EXCEPT !.folderName = FolderName(i)]
    ELSE loc[i]

\* find_or_create_folder returns id to create_lancamento_folder
FolderResolved(i, l, id) ==
    IF pc[i] \in {"month_find", "month_create"}
    THEN /\ pc' = [pc EXCEPT ![i] = "entry_find"]
         /\ loc' = [loc EXCEPT ![i] = [l EXCEPT !.monthId = id]]
    ELSE /\ pc' = [pc EXCEPT ![i] = "link_get"]
         /\ loc' = [loc EXCEPT ![i] = [l EXCEPT !.folderId = id]]

\* find_or_create_folder: files().list; files[0] of a non-empty result, in the
\* order of the store's listing
FindFolder(i) ==
    /\ pc[i] \in {"month_find", "entry_find"}
    /\ ~(pc[i] = "entry_find" /\ strip_raises(inp[i].fields))
    /\ UNCHANGED <<inp, sheet, slack, now, ticks>>
    /\ \/ /\ FolderMatches(FolderName(i), FolderParent(i)) # {}
          /\ \E id \in FolderMatches(FolderName(i), FolderParent(i)) :
               FolderResolved(i, Called(Named(i), "drive.list"), id)
          /\ UNCHANGED <<folders, uploads, outcome, faults>>
       \/ /\ FolderMatches(FolderName(i), FolderParent(i)) = {}
          /\ pc' = [pc EXCEPT ![i] = IF pc[i] = "month_find" THEN "month_create"
                                     ELSE "entry_create"]
          /\ loc' = [loc EXCEPT ![i] = Called(Named(i), "drive.list")]
          /\ UNCHANGED <<folders, uploads, outcome, faults>>
       \/ Raise(i, "drive.list")

\* create_lancamento_folder, line 414: build_folder_name raises before the
\* entry folder is looked up; the month folder has been resolved by then, and
\* the exception goes to the except block of the handler
BuildFolderNameRaises(i) ==
    /\ pc[i] = "entry_find"
    /\ strip_raises(inp[i].fields)
    /\ pc' = [pc EXCEPT ![i] = ExceptTarget(inp[i])]
    /\ loc' = [loc EXCEPT ![i] = [@ EXCEPT !.err = "AttributeError"]]
    /\ outcome' = [outcome EXCEPT ![i] = "failure"]
    /\ ExceptFrame(i)
    /\ UNCHANGED <<inp, sheet, slack, now, ticks, faults>>

\* the id files().create returns for a new folder
NewFolderId == Len(folders) + 1

\* find_or_create_folder: files().create of the folder
CreateFolder(i) ==
    /\ pc[i] \in {"month_create", "entry_create"}
    /\ UNCHANGED <<inp, sheet, slack, now, ticks>>
    /\ \/ /\ folders' = Append(folders,
                [name |-> IF pc[i] = "month_create" THEN loc[i].monthName
                          ELSE loc[i].folderName,
                 parent |-> FolderParent(i), by |-> i])
          /\ FolderResolved(i, [Called(loc[i], "drive.create")
                                  EXCEPT !.created = @ \cup {NewFolderId}], NewFolderId)
          /\ UNCHANGED <<uploads, outcome, faults>>
       \/ Raise(i, "drive.create")

\* create_lancamento_folder: files().get(fields = webViewLink); the link is
\* represented by the id of the folder it opens
GetLink(i) ==
    /\ pc[i] = "link_get"
    /\ UNCHANGED <<inp, sheet, slack, now, ticks>>
    /\ \/ /\ pc' = [pc EXCEPT ![i] = FilesTarget(inp[i])]
          /\ loc' = [loc EXCEPT ![i] = [Called(@, "drive.get")
                                          EXCEPT !.link = loc[i].folderId, !.idx = 1]]
          /\ UNCHANGED <<folders, uploads, outcome, faults>>
       \/ Raise(i, "drive.get")

\* a bug: the modal's files go into the month folder
upload_file_to_drive_month(i, att) ==
    uploads' = [uploads EXCEPT ![i] = Append(@,
        [parent |-> IF inp[i].path = "modal" THEN loc[i].monthId ELSE loc[i].folderId,
         att |-> att])]

\* upload_file_to_drive(drive, folder_id, ...): files().create of attachment att
upload_file_to_drive(i, att) ==
    uploads' = [uploads EXCEPT ![i] = Append(@, [parent |-> loc[i].folderId, att |-> att])]

\* a bug: file_count = len(files)
FileCountAttached(i) == inp[i].nfiles

\* slack_webhook, line 855: file_count = len(downloaded)
FileCount(i) == Len(loc[i].downloaded)

\* download_slack_files, one turn of its loop: status 200 appends the file; a file
\* without URL or a status other than 200 is logged and skipped; requests.get may raise
DownloadSlackFile(i) ==
    /\ pc[i] = "download"
    /\ UNCHANGED <<inp, sheet, slack, now, ticks>>
    /\ \/ \E got \in BOOLEAN :
            LET dl == IF got THEN Append(loc[i].downloaded, loc[i].idx)
                      ELSE loc[i].downloaded
                last == loc[i].idx = inp[i].nfiles
            IN  /\ got \/ MayFail
                /\ faults' = IF got THEN faults ELSE faults + 1
                /\ pc' = [pc EXCEPT ![i] = IF ~last THEN "download"
                                           ELSE IF dl = <<>> THEN "append" ELSE "upload"]
                /\ loc' = [loc EXCEPT ![i] =
                             [Called(@, "slack.download")
                                EXCEPT !.downloaded = dl,
                                       !.got = dl,
                                       !.tried = @ \cup {loc[i].idx},
                                       !.idx = IF last THEN 1 ELSE @ + 1]]
                /\ UNCHANGED <<folders, uploads, outcome>>
       \/ Raise(i, "slack.download")

\* a bug: the downloaded files are uploaded last first
NextDownloadedReversed(l) == l.downloaded[Len(l.downloaded) + 1 - l.idx]

\* slack_webhook, line 853: for f in downloaded
NextDownloaded(l) == l.downloaded[l.idx]

\* slack_webhook, lines 853-855: upload of the next downloaded file; file_count
\* is set after the last
UploadDownloaded(i) ==
    /\ pc[i] = "upload"
    /\ UNCHANGED <<inp, sheet, slack, now, ticks>>
    /\ \/ LET last == loc[i].idx = Len(loc[i].downloaded)
          IN  /\ upload_file_to_drive(i, NextDownloaded(loc[i]))
              /\ pc' = [pc EXCEPT ![i] = IF last THEN "append" ELSE "upload"]
              /\ loc' = [loc EXCEPT ![i] =
                           [Called(@, "drive.upload")
                              EXCEPT !.idx = @ + 1,
                                     !.ups = @ + 1,
                                     !.fileCount = IF last THEN FileCount(i) ELSE @]]
              /\ UNCHANGED <<folders, outcome, faults>>
       \/ Raise(i, "drive.upload")

\* process_modal_submission, lines 672-684: a file without id, get_file_info
\* returning None (its own errors are swallowed) or no URL skips the file
GetFileInfo(i) ==
    /\ pc[i] = "file_info"
    /\ UNCHANGED <<inp, folders, uploads, sheet, slack, outcome, now, ticks>>
    /\ \/ /\ pc' = [pc EXCEPT ![i] = "download_m"]
          /\ loc' = [loc EXCEPT ![i] =
                       [Called(@, "slack.files.info") EXCEPT !.tried = @ \cup {loc[i].idx}]]
          /\ UNCHANGED faults
       \/ /\ MayFail
          /\ faults' = faults + 1
          /\ pc' = [pc EXCEPT ![i] = NextFileTarget(inp[i], loc[i].idx)]
          /\ loc' = [loc EXCEPT ![i] =
                       [Called(@, "slack.files.info")
                          EXCEPT !.tried = @ \cup {loc[i].idx}, !.idx = @ + 1]]

\* process_modal_submission, lines 686-695: requests.get of the file; a status
\* other than 200 is logged and the file skipped
DownloadModalFile(i) ==
    /\ pc[i] = "download_m"
    /\ UNCHANGED <<inp, sheet, slack, now, ticks>>
    /\ \/ /\ pc' = [pc EXCEPT ![i] = "upload_m"]
          /\ loc' = [loc EXCEPT ![i] =
                       [Called(@, "slack.download") EXCEPT !.got = Append(@, loc[i].idx)]]
          /\ UNCHANGED <<folders, uploads, outcome, faults>>
       \/ /\ MayFail
          /\ faults' = faults + 1
          /\ pc' = [pc EXCEPT ![i] = NextFileTarget(inp[i], loc[i].idx)]
          /\ loc' = [loc EXCEPT ![i] = [Called(@, "slack.download") EXCEPT !.idx = @ + 1]]
          /\ UNCHANGED <<folders, uploads, outcome>>
       \/ Raise(i, "slack.download")

\* process_modal_submission, lines 692-693: upload, then file_count += 1
UploadModalFile(i) ==
    /\ pc[i] = "upload_m"
    /\ UNCHANGED <<inp, sheet, slack, now, ticks>>
    /\ \/ /\ upload_file_to_drive(i, loc[i].idx)
          /\ pc' = [pc EXCEPT ![i] = NextFileTarget(inp[i], loc[i].idx)]
          /\ loc' = [loc EXCEPT ![i] =
                       [Called(@, "drive.upload")
                          EXCEPT !.idx = @ + 1, !.ups = @ + 1, !.fileCount = @ + 1]]
          /\ UNCHANGED <<folders, outcome, faults>>
       \/ Raise(i, "drive.upload")

\* a bug: the link of the row is looked up again by the folder's name
DataRowByName(i) ==
    LET found == FolderMatches(loc[i].folderName, loc[i].monthId)
    IN  [kind |-> "data", by |-> i, fields |-> inp[i].fields,
         link |-> CHOOSE k \in found : \A m \in found : k <= m]

\* the row append_to_sheets writes, without its last column (the time of the
\* call, which nothing reads back); by records the ingestion that wrote it
DataRow(i) ==
    [kind |-> "data", by |-> i, fields |-> inp[i].fields, link |-> loc[i].link]

\* append_to_sheets
AppendToSheets(i) ==
    /\ pc[i] = "append"
    /\ UNCHANGED <<inp, slack, now, ticks>>
    /\ \/ /\ sheet' = AppendRow(sheet, DataRow(i))
          /\ pc' = [pc EXCEPT ![i] = NotifyTarget(inp[i])]
          /\ loc' = [loc EXCEPT ![i] = Called(@, "sheets.append")]
          /\ outcome' = [outcome EXCEPT ![i] = "success"]
          /\ UNCHANGED <<folders, uploads, faults>>
       \/ /\ Raise(i, "sheets.append")
          /\ UNCHANGED sheet

\* what a Slack call made at statement p reports
NotifyKind(p) ==
    IF p \in {"react_ok", "reply_ok", "post_ok"} THEN "success"
    ELSE IF p = "post_invalid" THEN "invalid" ELSE "failure"

\* one call of the Slack API for ingestion i, with what its text carries at
\* statement pc[i] (a reaction carries an emoji only); the caller logs and
\* swallows a failure of the call
SlackCall(i, api, delivered) ==
    LET kind == NotifyKind(pc[i])
        text == api # "reactions.add"
    IN  /\ delivered \/ MayFail
        /\ faults' = IF delivered THEN faults ELSE faults + 1
        /\ slack' = [slack EXCEPT ![i] = Append(@,
             [api |-> api, kind |-> kind, channel |-> inp[i].channel,
              link |-> IF text /\ kind = "success" THEN loc[i].link ELSE 0,
              count |-> IF text /\ kind = "success" THEN loc[i].fileCount ELSE 0,
              err |-> IF text /\ kind = "failure" THEN loc[i].err ELSE "none",
              delivered |-> delivered, meta |-> <<>>])]

\* a bug: send_slack_* let the exception of a failed call out: one raised in
\* the try block goes to the except block, one raised there leaves the handler
AfterNotifyRaising(i, next, delivered) ==
    IF delivered THEN next
    ELSE IF NotifyKind(pc[i]) = "success" THEN ExceptTarget(inp[i])
    ELSE "raised"

\* the statement after send_slack_reaction, send_slack_reply or
\* send_slack_message: each catches every exception of its call and returns
AfterNotify(i, next, delivered) == next

\* send_slack_reaction: white_check_mark after success, x in the except block
SendSlackReaction(i) ==
    /\ pc[i] \in {"react_ok", "react_fail"}
    /\ \E delivered \in BOOLEAN :
         /\ SlackCall(i, "reactions.add", delivered)
         /\ pc' = [pc EXCEPT ![i] = AfterNotify(i, AfterReaction(pc[i]), delivered)]
    /\ UNCHANGED <<inp, loc, folders, uploads, sheet, outcome, now, ticks>>

\* send_slack_reply: the threaded reply with the link and count, or with str(e)
SendSlackReply(i) ==
    /\ pc[i] \in {"reply_ok", "reply_fail"}
    /\ \E delivered \in BOOLEAN :
         /\ SlackCall(i, "chat.postMessage.thread", delivered)
         /\ pc' = [pc EXCEPT ![i] = AfterNotify(i, "done", delivered)]
    /\ UNCHANGED <<inp, loc, folders, uploads, sheet, outcome, now, ticks>>

\* send_slack_message: the modal's summary, its error post, or the
\* "DATA e VALOR sao obrigatorios" post
SendSlackMessage(i) ==
    /\ pc[i] \in {"post_ok", "post_fail", "post_invalid"}
    /\ \E delivered \in BOOLEAN :
         /\ SlackCall(i, "chat.postMessage", delivered)
         /\ pc' = [pc EXCEPT ![i] = AfterNotify(i, "done", delivered)]
    /\ UNCHANGED <<inp, loc, folders, uploads, sheet, outcome, now, ticks>>

\* the wall clock passes into the next month
Tick ==
    /\ ticks < MaxTicks
    /\ ticks' = ticks + 1
    /\ now' = IF now.m = 12 THEN [now EXCEPT !.y = @ + 1, !.m = 1] ELSE [now EXCEPT !.m = @ + 1]
    /\ UNCHANGED <<pc, inp, loc, folders, uploads, sheet, slack, outcome, faults>>

\* the statements of an ingestion after the event was received
Step(i) ==
    \/ GetServices(i)
    \/ EnsureHeadersGet(i)
    \/ EnsureHeadersUpdate(i)
    \/ FindFolder(i)
    \/ BuildFolderNameRaises(i)
    \/ CreateFolder(i)
    \/ GetLink(i)
    \/ DownloadSlackFile(i)
    \/ UploadDownloaded(i)
    \/ GetFileInfo(i)
    \/ DownloadModalFile(i)
    \/ UploadModalFile(i)
    \/ AppendToSheets(i)
    \/ SendSlackReaction(i)
    \/ SendSlackReply(i)
    \/ SendSlackMessage(i)

\* datetime.now() is called by get_month_folder_name when the date does not
\* parse, and nowhere else in what is modelled: a month change matters when
\* some invocation is about to make that call
ClockRead ==
    \E j \in Ing : pc[j] = "month_find" /\ StrptimeDMY(Strip(inp[j].fields.DATA)) = NoDate

\* what earlier invocations (marked by |-> 0) can have left in Drive and in the
\* tab: nothing; the header and a month folder (the entry folder's creation
\* failed); the folders and the row of a complete ingestion, with the header
\* and, when the header call had failed, without it
PriorFields == extract_fields(Text1)

PriorMonth ==
    [name |-> get_month_folder_name(PriorFields, [y |-> 2025, m |-> 2, d |-> 1]),
     parent |-> RootId, by |-> 0]

PriorEntry == [name |-> build_folder_name(PriorFields), parent |-> 1, by |-> 0]

PriorRow == [kind |-> "data", by |-> 0, fields |-> PriorFields, link |-> 2]

PriorStores ==
    { [folders |-> <<>>, sheet |-> <<>>],
      [folders |-> <<PriorMonth>>, sheet |-> <<HeaderRow>>],
      [folders |-> <<PriorMonth, PriorEntry>>, sheet |-> <<HeaderRow, PriorRow>>],
      [folders |-> <<PriorMonth, PriorEntry>>, sheet |-> <<PriorRow>>] }

\* one invocation arrives at a deployment that earlier invocations have used
InitOne ==
    /\ pc = [i \in Ing |-> "idle"]
    /\ inp = [i \in Ing |-> NoInput]
    /\ loc = [i \in Ing |-> NoLocals]
    /\ \E st \in PriorStores : folders = st.folders /\ sheet = st.sheet
    /\ uploads = [i \in Ing |-> <<>>]
    /\ slack = [i \in Ing |-> <<>>]
    /\ outcome = [i \in Ing |-> "none"]
    /\ now = [y |-> 2025, m |-> 2, d |-> 1]
    /\ ticks = 0
    /\ faults = 0

\* a single invocation, run end to end
Next ==
    \/ ReceiveMessage(1, MaxFiles)
    \/ ReceiveModal(1, MaxFiles)
    \/ HandleSlashCommand(1)
    \/ Step(1)
    \/ ClockRead /\ Tick

Spec == InitOne /\ [][Next]_vars

\* attachments left to the events of a run of several invocations
FilesLeft ==
    LET RECURSIVE Used(_)
        Used(k) == IF k = 0 THEN 0 ELSE inp[k].nfiles + Used(k - 1)
    IN  RunFiles - Used(NumIng)

\* invocations are numbered in the order of arrival
Arrives(i) == \A j \in Ing : j < i => pc[j] # "idle"

\* invocations one after another: the next event arrives when no handler runs
Quiet == \A j \in Ing : pc[j] \in {"idle", "done", "raised"}

NextSeq ==
    \/ \E i \in Ing :
         \/ Quiet /\ Arrives(i) /\ ReceiveMessage(i, FilesLeft)
         \/ Quiet /\ Arrives(i) /\ ReceiveModal(i, FilesLeft)
         \/ Quiet /\ Arrives(i) /\ HandleSlashCommand(i)
         \/ Step(i)
    \/ ClockRead /\ Tick

SpecSeq == Init /\ [][NextSeq]_vars

\* statements that touch nothing another invocation reads: the folder
\* namespace and the tab are shared, everything else belongs to one invocation
LocalPc ==
    {"services", "link_get", "download", "upload", "file_info", "download_m",
     "upload_m", "react_ok", "reply_ok", "post_ok", "react_fail", "reply_fail",
     "post_fail", "post_invalid"}

\* scheduling points are the calls on the shared stores: an invocation at a
\* local statement runs on to its next shared call before another one moves
Turn(i) == \A j \in Ing \ {i} : pc[j] \in LocalPc => (pc[i] \in LocalPc /\ i < j)

\* concurrent invocations
NextRace ==
    \/ \E i \in Ing :
         \/ Turn(i) /\ Arrives(i) /\ ReceiveMessage(i, FilesLeft)
         \/ Turn(i) /\ Arrives(i) /\ ReceiveModal(i, FilesLeft)
         \/ Turn(i) /\ Arrives(i) /\ HandleSlashCommand(i)
         \/ Turn(i) /\ Step(i)
    \/ ClockRead /\ Tick

SpecRace == Init /\ [][NextRace]_vars

\* the failures counted are those of one invocation: the count starts again
\* when the first invocation has ended
NextInvocation ==
    /\ pc[1] \in {"done", "raised"}
    /\ pc[2] = "idle"
    /\ faults > 0
    /\ faults' = 0
    /\ UNCHANGED <<pc, inp, loc, folders, uploads, sheet, slack, outcome, now, ticks>>

\* a message event, and after it a modal submission, each with its own failures
NextPair ==
    \/ ReceiveMessage(1, PairFiles)
    \/ pc[1] \in {"done", "raised"} /\ ReceiveModal(2, PairFiles)
    \/ \E i \in 1..2 : Step(i)
    \/ NextInvocation

SpecPair == Init /\ [][NextPair]_vars

(***************************************************************************)
(* Properties.                                                             *)
(***************************************************************************)
Done(i) == pc[i] = "done"

\* the rows of the tab that ingestion i appended
Rows(i) == {k \in 1..Len(sheet) : sheet[k].kind = "data" /\ sheet[k].by = i}

\* the Slack calls of ingestion i that report kind
Sent(i, kind) == {k \in 1..Len(slack[i]) : slack[i][k].kind = kind}

\* the Slack calls of ingestion i that carry the text of the error it caught
SentError(i) ==
    {k \in Sent(i, "failure") : slack[i][k].err = loc[i].err /\ loc[i].err # "none"}

\* a record whose date or amount is empty
Ineligible(i) ==
    /\ inp[i].path \in {"message", "modal"}
    /\ inp[i].fields.DATA = <<>> \/ inp[i].fields.VALOR = <<>>

Eligible(i) == inp[i].path \in {"message", "modal"} /\ ~Ineligible(i)

\* a modal submission that recorded no channel: there is nowhere to post to
NoChannel(i) == inp[i].path = "modal" /\ inp[i].channel = <<>>

FolderErrors == {"drive.list", "drive.create", "drive.get"}

\* C1 as stated: when a step of folder resolution fails, the ingestion uploads
\* no file, appends no row and sends a failure notification with the error
\* text, on either entry path.
C1_AsClaimed ==
    \A i \in Ing :
        loc[i].err \in FolderErrors =>
            /\ uploads[i] = <<>> /\ loc[i].ups = 0
            /\ Rows(i) = {}
            /\ Done(i) => SentError(i) # {}

\* C1, amended: when a step of folder resolution (find or create of the month
\* folder, find or create of the entry folder, fetch of the link) fails, the
\* ingestion uploads no file, appends no row and sends no success notification;
\* it sends a failure notification with the error text, except for a modal
\* submission that recorded no channel, which sends nothing.
C1_FolderFailure ==
    \A i \in Ing :
        loc[i].err \in FolderErrors =>
            /\ uploads[i] = <<>> /\ loc[i].ups = 0
            /\ Rows(i) = {}
            /\ Sent(i, "success") = {}
            /\ Done(i) => IF NoChannel(i) THEN slack[i] = <<>> ELSE SentError(i) # {}

C1_Witness ==
    \E i \in Ing :
        /\ Done(i) /\ loc[i].err = "drive.create" /\ loc[i].monthId # 0
        /\ inp[i].path = "modal" /\ SentError(i) # {}

\* C2: the steps of an ingestion happen in the order folder resolve, file
\* archive, ledger append, notification: an upload is made only into the
\* resolved entry folder, after its link was fetched; append_to_sheets is
\* reached only after every attachment was taken up and every downloaded one
\* uploaded; a success notification is sent only after the row was appended.
C2_Order ==
    \A i \in Ing :
        /\ (pc[i] \in {"download", "upload", "file_info", "download_m", "upload_m"}
              \/ loc[i].tried # {} \/ uploads[i] # <<>>) =>
                /\ loc[i].folderId # 0 /\ loc[i].link = loc[i].folderId
                /\ \A k \in 1..Len(uploads[i]) : uploads[i][k].parent = loc[i].folderId
        /\ (pc[i] = "append" \/ Rows(i) # {} \/ loc[i].err = "sheets.append") =>
                /\ loc[i].tried = 1..inp[i].nfiles
                /\ loc[i].ups = Len(loc[i].got)
        /\ (pc[i] \in {"react_ok", "reply_ok", "post_ok"} \/ Sent(i, "success") # {}) =>
                /\ Rows(i) # {}
                /\ outcome[i] = "success"

C2_Witness ==
    \E i \in Ing :
        /\ Done(i) /\ inp[i].nfiles >= 2 /\ Len(uploads[i]) >= 1
        /\ Rows(i) # {} /\ Sent(i, "success") # {}

\* C3 as stated: an ineligible record (date or amount empty) makes no
\* document-store call, no spreadsheet call and no notification of any kind,
\* on both entry paths.
C3_AsClaimed ==
    \A i \in Ing : Ineligible(i) => loc[i].calls = {} /\ slack[i] = <<>>

\* C3, amended: an ineligible record makes no document-store call and no
\* spreadsheet call on either path. On the message path nothing is sent. On the
\* modal path one message (DATA e VALOR sao obrigatorios) is posted to the
\* recorded channel when that channel is not empty, and nothing otherwise.
C3_Dropped ==
    \A i \in Ing :
        Ineligible(i) =>
            /\ loc[i].calls = {} /\ loc[i].created = {}
            /\ uploads[i] = <<>> /\ Rows(i) = {}
            /\ outcome[i] = "dropped"
            /\ \A k \in 1..Len(slack[i]) :
                   slack[i][k].kind = "invalid" /\ slack[i][k].channel = inp[i].channel
            /\ Done(i) =>
                   Len(slack[i]) = IF inp[i].path = "modal" /\ inp[i].channel # <<>> THEN 1 ELSE 0

C3_Witness ==
    \E i \in Ing :
        /\ Done(i) /\ Ineligible(i) /\ inp[i].path = "modal"
        /\ Len(slack[i]) = 1 /\ loc[i].calls = {}

\* C4 as stated: every eligible ingestion ends with a success notification or a
\* failure notification, never both and never neither.
C4_AsClaimed ==
    \A i \in Ing :
        Done(i) /\ Eligible(i) => (Sent(i, "success") # {}) # (Sent(i, "failure") # {})

\* C4, amended: an eligible ingestion never sends both a success and a failure
\* notification; it ends with exactly one of the two, the one of its outcome,
\* except for a modal submission that recorded no channel (or whose private
\* metadata does not decode), which ends with no notification.
C4_OneOutcome ==
    \A i \in Ing :
        Eligible(i) =>
            /\ ~(Sent(i, "success") # {} /\ Sent(i, "failure") # {})
            /\ Sent(i, "invalid") = {}
            /\ Done(i) =>
                 /\ outcome[i] \in {"success", "failure"}
                 /\ IF NoChannel(i) THEN slack[i] = <<>>
                    ELSE /\ Sent(i, outcome[i]) # {}
                         /\ Len(slack[i]) = IF inp[i].path = "message" THEN 2 ELSE 1

C4_Witness ==
    \E i \in Ing :
        /\ Done(i) /\ Eligible(i) /\ outcome[i] = "failure"
        /\ Sent(i, "failure") # {} /\ Sent(i, "success") = {}

\* the attachments ingestion i has uploaded, in the order of the uploads
Uploaded(i) == [k \in 1..Len(uploads[i]) |-> uploads[i][k].att]

\* the Slack calls of ingestion i that carry the success text (link and count)
SentSummary(i) == {k \in Sent(i, "success") : slack[i][k].api # "reactions.add"}

C6_AsClaimed ==
    \A i \in Ing :
        loc[i].err = "drive.upload" /\ Done(i) =>
            /\ loc[i].tried = 1..inp[i].nfiles
            /\ Rows(i) # {}
            /\ outcome[i] = "success"

\* what ingestion i has written to Drive is still there: the folders it
\* created and as many files as uploads of it returned
NothingUndone(i) ==
    /\ \A id \in loc[i].created : id \in 1..Len(folders) /\ folders[id].by = i
    /\ Len(uploads[i]) = loc[i].ups

\* C7 as stated: when the ledger append fails, the ingestion sends a failure
\* notification with the error text and no success notification, and nothing
\* done before is rolled back.
C7_AsClaimed ==
    \A i \in Ing :
        loc[i].err = "sheets.append" =>
            /\ NothingUndone(i)
            /\ Sent(i, "success") = {}
            /\ Done(i) => SentError(i) # {}

\* C7, amended: when the ledger append fails after the folder was resolved and
\* files were archived, the ingestion sends no success notification and rolls
\* nothing back (its folders and files still exist); it sends a failure
\* notification with the error text, except for a modal submission that
\* recorded no channel, which sends nothing.
C7_LedgerFailure ==
    \A i \in Ing :
        loc[i].err = "sheets.append" =>
            /\ NothingUndone(i)
            /\ loc[i].folderId \in 1..Len(folders)
            /\ Rows(i) = {}
            /\ Sent(i, "success") = {}
            /\ Done(i) => IF NoChannel(i) THEN slack[i] = <<>> ELSE SentError(i) # {}

C7_Witness ==
    \E i \in Ing :
        /\ Done(i) /\ loc[i].err = "sheets.append"
        /\ loc[i].created # {} /\ Len(uploads[i]) >= 1
        /\ SentError(i) # {}

\* ingestion i has both its folder ids
Resolved(i) == pc[i] # "idle" /\ loc[i].monthId # 0 /\ loc[i].folderId # 0

\* at most one folder per (parent, name)
NoDuplicateFolders ==
    \A a, b \in 1..Len(folders) :
        folders[a].name = folders[b].name /\ folders[a].parent = folders[b].parent
            => a = b

\* the later of two ingestions resolved the folders the earlier one resolved
SameFolders(i, j) ==
    /\ loc[j].monthId = loc[i].monthId
    /\ loc[j].folderId = loc[i].folderId
    /\ loc[j].created = {}

\* C8 as stated: with ingestions one after another, resolving an equivalent
\* record a second time returns the same month folder id and the same entry
\* folder id and creates no folder; there is at most one folder per (parent,
\* derived name).
C8_AsClaimed ==
    /\ NoDuplicateFolders
    /\ \A i, j \in Ing :
          i < j /\ Resolved(i) /\ Resolved(j) /\ inp[i].fields = inp[j].fields
              => SameFolders(i, j)

\* C8, amended: with ingestions one after another there is at most one folder
\* per (parent, derived name), and resolving an equivalent record a second
\* time returns the same two folder ids and creates no folder whenever the
\* month name derived is the same, which it is when the date parses; the month
\* of a record whose date does not parse is the month of the wall clock.
C8_Idempotent ==
    /\ NoDuplicateFolders
    /\ \A i, j \in Ing :
          i < j /\ Resolved(i) /\ Resolved(j) /\ inp[i].fields = inp[j].fields
              => /\ loc[i].folderName = loc[j].folderName
                 /\ StrptimeDMY(Strip(inp[i].fields.DATA)) # NoDate
                       => loc[i].monthName = loc[j].monthName
                 /\ loc[i].monthName = loc[j].monthName => SameFolders(i, j)

\* the same record twice: the first ingestion created its folders, the second
\* one found them
C8_Witness ==
    \E i, j \in Ing :
        /\ i < j /\ Resolved(i) /\ Resolved(j) /\ inp[i].fields = inp[j].fields
        /\ Cardinality(loc[i].created) = 2
        /\ SameFolders(i, j)

\* the folder ids ingestion i holds name folders of the store, of the name
\* and under the parent it asked for
HoldsExisting(i) ==
    /\ loc[i].monthId # 0 =>
          /\ loc[i].monthId \in 1..Len(folders)
          /\ folders[loc[i].monthId].name = loc[i].monthName
          /\ folders[loc[i].monthId].parent = RootId
    /\ loc[i].folderId # 0 =>
          /\ loc[i].folderId \in 1..Len(folders)
          /\ folders[loc[i].folderId].name = loc[i].folderName
          /\ folders[loc[i].folderId].parent = loc[i].monthId

\* C9: with concurrent ingestions, whatever the interleaving of the find and
\* the create steps, each ingestion returns a folder that exists in the store,
\* of the name derived and under the parent asked for; two ingestions may both
\* create a folder of one name under one parent (the witness).
C9_ReturnedFolderExists == \A i \in Ing : HoldsExisting(i)

\* both ingestions created a folder of the same name under the same parent,
\* and both have resolved their folders
C9_Witness ==
    \E a, b \in 1..Len(folders) :
        /\ a # b
        /\ folders[a].name = folders[b].name
        /\ folders[a].parent = folders[b].parent
        /\ folders[a].by # folders[b].by
        /\ Resolved(folders[a].by) /\ Resolved(folders[b].by)

\* C10 as stated: the ledger is append-only: the row an ingestion appended is
\* still in the tab with its content, whatever the interleaving and whatever
\* failed in the header check.
C10_AsClaimed ==
    \A i \in Ing :
        outcome[i] = "success" =>
            \E k \in 1..Len(sheet) : sheet[k] = DataRow(i)

\* the data rows of the tab that the ingestions of the run appended
DataRows == {k \in 1..Len(sheet) : sheet[k].kind = "data" /\ sheet[k].by \in Ing}

\* the ingestions that ended in success
Succeeded == {i \in Ing : outcome[i] = "success"}

\* C11 as stated: an ingestion that ended in success has appended exactly one
\* row, one that was dropped or ended in failure none, and the number of data
\* rows in the tab equals the number of successful ingestions.
C11_AsClaimed ==
    /\ \A i \in Ing :
          Cardinality(Rows(i)) = IF outcome[i] = "success" THEN 1 ELSE 0
    /\ Cardinality(DataRows) = Cardinality(Succeeded)

\* C12 as stated: whenever the tab holds a data row appended by the system,
\* its first row is the header, also when the header read or write failed.
C12_AsClaimed ==
    (\E k \in 1..Len(sheet) : sheet[k].kind = "data") => sheet[1] = HeaderRow

\* the notification calls of ingestion i that failed
Undelivered(i) == {k \in 1..Len(slack[i]) : ~slack[i][k].delivered}

\* C13: a notification call that fails is caught where it is made: no
\* exception leaves the handler, the calls that follow it are still made, a
\* failed success notification leaves the outcome a success, with its row in
\* the tab and no failure notification, and a failed failure notification
\* leaves the outcome a failure.
C13_BestEffort ==
    \A i \in Ing :
        /\ Undelivered(i) # {} => pc[i] # "raised"
        /\ \A k \in Undelivered(i) :
              /\ slack[i][k].kind = "success" =>
                    /\ outcome[i] = "success"
                    /\ Cardinality(Rows(i)) = 1
                    /\ Sent(i, "failure") = {}
              /\ slack[i][k].kind = "failure" =>
                    /\ outcome[i] = "failure"
                    /\ Sent(i, "success") = {}
        /\ Done(i) /\ Eligible(i) /\ inp[i].path = "message" => Len(slack[i]) = 2

\* the success reaction failed, the reply that follows it was sent, the row is
\* in the tab
C13_Witness ==
    \E i \in Ing :
        /\ Done(i) /\ outcome[i] = "success" /\ Rows(i) # {}
        /\ Len(slack[i]) = 2
        /\ slack[i][1].api = "reactions.add" /\ ~slack[i][1].delivered
        /\ slack[i][2].kind = "success" /\ slack[i][2].delivered

\* C14 as stated: whatever remote call or parsing step fails while a verified
\* request (message event, slash command, interaction payload) is processed,
\* no exception leaves the handler: it returns its response.
C14_AsClaimed == \A i \in Ing : pc[i] # "raised"

\* C15: an event starts an ingestion only when its type is message, it has no
\* bot_id and its subtype is absent or file_share; any other event is answered
\* at once, with no remote call, no write and no notification, so a message
\* posted by the bot (which carries a bot_id) never starts an ingestion.
C15_OnlyUserMessages ==
    \A i \in Ing :
        /\ inp[i].path = "message" =>
              /\ inp[i].ev.type = "message"
              /\ ~inp[i].ev.bot
              /\ inp[i].ev.subtype \in {"", "file_share"}
        /\ inp[i].path = "event" =>
              /\ Done(i)
              /\ loc[i] = NoLocals
              /\ slack[i] = <<>> /\ uploads[i] = <<>> /\ Rows(i) = {}
              /\ \A k \in 1..Len(folders) : folders[k].by # i
        /\ inp[i].ev.bot => inp[i].path = "event"

\* an event with a bot_id was received and answered without any call
C15_Witness ==
    \E i \in Ing :
        /\ Done(i) /\ inp[i].path = "event"
        /\ inp[i].ev.type = "message" /\ inp[i].ev.bot
        /\ loc[i].calls = {} /\ slack[i] = <<>>

\* what the rows of ingestion i hold (all columns but the time of the call)
RowContent(i) == {[fields |-> sheet[k].fields, link |-> sheet[k].link] : k \in Rows(i)}

\* which call of its kind raised in ingestion i: the attachment whose download
\* raised, the upload (first, second, ...) that raised, 0 for any other call
RaisedAt(i) ==
    IF loc[i].err = "drive.upload" THEN loc[i].ups + 1
    ELSE IF loc[i].err = "slack.download"
    THEN Cardinality(loc[i].tried) + (IF inp[i].path = "message" THEN 1 ELSE 0)
    ELSE 0

\* a message event i and a modal submission j with equal derived fields, the
\* same attachments and the same outcomes of the remote calls: the same
\* downloads answered 200 and the same call raised
SameRun(i, j) ==
    /\ inp[i].path = "message" /\ inp[j].path = "modal"
    /\ Done(i) /\ Done(j)
    /\ inp[i].fields = inp[j].fields
    /\ inp[i].nfiles = inp[j].nfiles
    /\ loc[i].got = loc[j].got
    /\ loc[i].err = loc[j].err
    /\ RaisedAt(i) = RaisedAt(j)

DateParses(i) == StrptimeDMY(Strip(inp[i].fields.DATA)) # NoDate

\* the months the wall clock has shown so far
ClockMonths == {StrftimeYM([y |-> 2025, m |-> 2 + t, d |-> 1]) : t \in 0..ticks}

\* C17 as stated: two records with identical date, amount, bank, company and
\* cost-center get the same month folder name and the same entry folder name,
\* whenever each is processed, also when the date does not parse.
C17_AsClaimed ==
    \A i, j \in Ing :
        inp[i].fields = inp[j].fields =>
            /\ loc[i].monthName # <<>> /\ loc[j].monthName # <<>>
                  => loc[i].monthName = loc[j].monthName
            /\ loc[i].folderName # <<>> /\ loc[j].folderName # <<>>
                  => loc[i].folderName = loc[j].folderName

\* C17, amended: two records with identical fields get the same entry folder
\* name whenever each is processed, and the same month folder name when the
\* date parses as DD/MM/YYYY; when it does not, the month folder name is the
\* month of the wall clock at the time of processing.
C17_Deterministic ==
    \A i, j \in Ing :
        inp[i].fields = inp[j].fields =>
            /\ loc[i].folderName # <<>> /\ loc[j].folderName # <<>>
                  => loc[i].folderName = loc[j].folderName
            /\ loc[i].monthName # <<>> /\ loc[j].monthName # <<>> /\ DateParses(i)
                  => loc[i].monthName = loc[j].monthName
            /\ loc[i].monthName # <<>> /\ ~DateParses(i)
                  => loc[i].monthName \in ClockMonths

\* the same record with a date that does not parse, processed in two months:
\* two month folder names, one entry folder name
C17_Witness ==
    \E i, j \in Ing :
        /\ i # j /\ inp[i].fields = inp[j].fields /\ ~DateParses(i)
        /\ loc[i].folderName # <<>> /\ loc[i].folderName = loc[j].folderName
        /\ loc[i].monthName # <<>> /\ loc[j].monthName # <<>>
        /\ loc[i].monthName # loc[j].monthName

\* date and amount of the record of ingestion i are non-empty after trimming
NonEmptyTrimmed(i) ==
    Strip(inp[i].fields.DATA) # <<>> /\ Strip(inp[i].fields.VALOR) # <<>>

\* C18 as stated: on both entry paths a record is processed (not dropped
\* before any remote work) iff its date and its amount are non-empty after
\* trimming; a modal submission with an amount of blanks is not processed.
C18_AsClaimed ==
    \A i \in Ing :
        inp[i].path \in {"message", "modal"} =>
            (outcome[i] # "dropped") = NonEmptyTrimmed(i)

\* a sequence of attachment numbers in input order
InInputOrder(q) == \A a, b \in 1..Len(q) : a < b => q[a] < q[b]

\* C19 as stated: on both entry paths, when the download of an attachment is
\* about to start, every attachment downloaded before has been uploaded, and
\* the uploads are in input order.
C19_AsClaimed ==
    \A i \in Ing :
        /\ InInputOrder(Uploaded(i))
        /\ pc[i] \in {"download", "file_info", "download_m"} =>
              Len(uploads[i]) = Len(loc[i].got)

\* C19, amended: on both paths the attachments are downloaded in input order
\* and the files uploaded are, in input order, the first of those downloaded.
\* On the modal path every attachment downloaded has been uploaded when the
\* next one is taken up. On the message path no file is uploaded before the
\* download of the last attachment has been tried.
C19_InOrder ==
    \A i \in Ing :
        /\ InInputOrder(loc[i].got)
        /\ InInputOrder(Uploaded(i))
        /\ Len(uploads[i]) <= Len(loc[i].got)
        /\ \A k \in 1..Len(uploads[i]) : Uploaded(i)[k] = loc[i].got[k]
        /\ inp[i].path = "modal" /\ pc[i] \in {"file_info", "download_m"} =>
              Len(uploads[i]) = Len(loc[i].got)
        /\ inp[i].path = "message" /\ pc[i] = "download" => uploads[i] = <<>>
        /\ inp[i].path = "message" /\ uploads[i] # <<>> =>
              loc[i].tried = 1..inp[i].nfiles

\* the message path with three attachments: the second upload is due when all
\* three have been downloaded and the first uploaded
C19_Witness ==
    \E i \in Ing :
        /\ inp[i].path = "message" /\ pc[i] = "upload"
        /\ loc[i].got = <<1, 2, 3>>
        /\ Uploaded(i) = <<1>>

\* C20: the entry folder an ingestion resolved is the one it uses throughout:
\* every file it uploads goes into that folder, the link in its row and in its
\* success notification is the link of that folder, and it creates at most one
\* month folder and one entry folder, also when concurrent ingestions have
\* created folders of the same name.
C20_OneLocation ==
    \A i \in Ing :
        /\ \A k \in 1..Len(uploads[i]) :
              loc[i].folderId # 0 /\ uploads[i][k].parent = loc[i].folderId
        /\ loc[i].link # 0 => loc[i].link = loc[i].folderId
        /\ \A k \in Rows(i) : sheet[k].link = loc[i].folderId
        /\ \A k \in SentSummary(i) : slack[i][k].link = loc[i].folderId
        /\ Cardinality(loc[i].created) <= 2
        /\ \A a, b \in loc[i].created : folders[a].parent = folders[b].parent => a = b

\* two entry folders of one name under one month folder, and an ingestion that
\* uploaded its file into the one it had created, wrote its link in the row
\* and sent it in the notification
C20_Witness ==
    \E i \in Ing :
        /\ Done(i) /\ outcome[i] = "success"
        /\ Len(uploads[i]) = 1 /\ Rows(i) # {} /\ SentSummary(i) # {}
        /\ \E a \in 1..Len(folders) :
              /\ a < loc[i].folderId
              /\ folders[a].name = folders[loc[i].folderId].name
              /\ folders[a].parent = folders[loc[i].folderId].parent

\* the kind of notification that reports the outcome of ingestion i
OutcomeKind(i) ==
    IF outcome[i] = "dropped" THEN "invalid" ELSE outcome[i]

\* C21: the notification of a modal submission goes to the channel the slash
\* command that opened the modal was issued in, and to no other channel: the
\* channel id read back from private_metadata at submission is the one stored
\* when the modal was opened, every Slack call of the submission is a post to
\* that channel, and a submission that has ended has made exactly one, the one
\* of its outcome.
C21_OriginChannel ==
    \A i \in Ing :
        inp[i].path = "modal" /\ inp[i].opener # 0 =>
            LET j == inp[i].opener
            IN  /\ inp[j].path = "command"
                /\ slack[j][1].meta = private_metadata(inp[j].channel)
                /\ inp[i].channel = inp[j].channel
                /\ \A k \in 1..Len(slack[i]) :
                      /\ slack[i][k].api = "chat.postMessage"
                      /\ slack[i][k].channel = inp[j].channel
                /\ Done(i) =>
                      /\ Len(slack[i]) = 1
                      /\ slack[i][1].kind = OutcomeKind(i)

\* a slash command in C2 opened the modal, its submission failed and the
\* error was posted to C2
C21_Witness ==
    \E i \in Ing :
        /\ inp[i].path = "modal" /\ inp[i].opener # 0 /\ Done(i)
        /\ inp[inp[i].opener].channel = ChanC2
        /\ outcome[i] = "failure"
        /\ Len(slack[i]) = 1 /\ slack[i][1].channel = ChanC2
        /\ slack[i][1].err = loc[i].err

\* a name of the form YYYY-MM
IsMonthName(s) ==
    /\ Len(s) = 7
    /\ AllDigits(SubSeq(s, 1, 4))
    /\ s[5] = "-"
    /\ AllDigits(SubSeq(s, 6, 7))
    /\ DigitsVal(SubSeq(s, 6, 7), 0) \in 1..12

\* folder k is a month folder: a direct child of the root with a month name
MonthFolder(k) == folders[k].parent = RootId /\ IsMonthName(folders[k].name)

\* folder k is an entry folder: a direct child of a month folder
EntryFolder(k) ==
    /\ folders[k].parent \in 1..Len(folders)
    /\ MonthFolder(folders[k].parent)

\* the month folder names of the record of ingestion i: the month of its date,
\* or a month the wall clock has shown when the date does not parse
MonthNames(i) ==
    {get_month_folder_name(inp[i].fields, [y |-> 2025, m |-> 2 + t, d |-> 1]) : t \in 0..ticks}

\* C22: under any interleaving of ingestions, every folder of the store is a
\* direct child of the root with a name YYYY-MM or a direct child of such a
\* month folder; every file uploaded is a direct child of an entry folder; the
\* entry folder an ingestion resolved has the entry folder name of its record
\* and lies under the month folder the ingestion resolved, which has the month
\* folder name of the record.
C22_Hierarchy ==
    /\ \A k \in 1..Len(folders) : MonthFolder(k) \/ EntryFolder(k)
    /\ \A i \in Ing : \A k \in 1..Len(uploads[i]) :
          /\ uploads[i][k].parent \in 1..Len(folders)
          /\ EntryFolder(uploads[i][k].parent)
    /\ \A i \in Ing :
          loc[i].folderId # 0 =>
              /\ loc[i].folderId \in 1..Len(folders)
              /\ EntryFolder(loc[i].folderId)
              /\ folders[loc[i].folderId].name = build_folder_name(inp[i].fields)
              /\ folders[loc[i].folderId].parent = loc[i].monthId
              /\ folders[loc[i].monthId].name \in MonthNames(i)

\* two concurrent ingestions have left three folders or more (one name was
\* created twice), and one of them, whose date does not parse, has uploaded
\* its file into its entry folder
C22_Witness ==
    /\ Len(folders) >= 3
    /\ \E i \in Ing :
          /\ Done(i) /\ outcome[i] = "success" /\ ~DateParses(i)
          /\ Len(uploads[i]) = 1
          /\ EntryFolder(uploads[i][1].parent)

\* what ingestion i has done to the stores and to Slack: nothing
NoTrace(i) ==
    /\ loc[i] = NoLocals
    /\ slack[i] = <<>> /\ uploads[i] = <<>> /\ Rows(i) = {}
    /\ \A k \in 1..Len(folders) : folders[k].by # i

\* C23: a message event that carries the retry header is answered at once,
\* with no Drive call, no Sheets call and no notification, so that the
\* deliveries of one message leave at most the one row of its first delivery;
\* the header is read on the event path only: a submission and a slash command
\* that carry it are processed like any other.
C23_RetryIgnored ==
    \A i \in Ing :
        /\ inp[i].path = "message" => ~inp[i].ev.retry
        /\ inp[i].path = "event" /\ inp[i].ev.retry =>
              Done(i) /\ outcome[i] = "ignored" /\ NoTrace(i)
        /\ Cardinality(Rows(i)) <= 1
        /\ inp[i].path = "modal" /\ inp[i].ev.retry =>
              /\ outcome[i] # "ignored"
              /\ Done(i) /\ Eligible(i) => loc[i].calls # {}
        /\ inp[i].path = "command" /\ inp[i].ev.retry /\ inp[i].command = "/pagamento" =>
              Len(slack[i]) = 1 /\ slack[i][1].api = "views.open"

\* a message was delivered and processed, its repeated delivery was answered
\* without a call, and the tab holds the one row
C23_Witness ==
    \E i, j \in Ing :
        /\ inp[i].path = "message" /\ outcome[i] = "success" /\ Done(i)
        /\ inp[j].path = "event" /\ inp[j].ev.retry /\ Done(j)
        /\ inp[j].ev.type = "message" /\ ~inp[j].ev.bot
        /\ NoTrace(j)
        /\ Cardinality(DataRows) = 1

\* the remote calls that raise into the except block of a handler
RemoteCalls ==
    {"google.build", "drive.list", "drive.create", "drive.get", "drive.upload",
     "slack.download", "sheets.append"}

\* the record of ingestion i with "" for every optional field without a value
WithEmptyStrings(i) ==
    [f \in DOMAIN inp[i].fields |->
        IF inp[i].fields[f] = None THEN <<>> ELSE inp[i].fields[f]]

\* an optional field of the record of ingestion i has no value
OptionalUnfilled(i) ==
    \E f \in {"BANCO", "EMPRESA", "CL"} : inp[i].fields[f] \in {<<>>, None}

\* C24 as stated: a modal submission with date and amount present and an
\* optional input left unfilled (its value absent or null) is treated as having
\* the empty string there: when no remote call fails it ends in success, with an
\* entry folder whose name leaves the field out.
C24_AsClaimed ==
    \A i \in Ing :
        /\ inp[i].path = "modal" /\ Eligible(i) /\ OptionalUnfilled(i)
        /\ Done(i) /\ loc[i].err \notin RemoteCalls
        => /\ outcome[i] = "success"
           /\ loc[i].folderName = build_folder_name(WithEmptyStrings(i))

\* C25 as stated: ensure_headers writes the header only over an empty first
\* row and otherwise leaves the tab unchanged, however its check and its write
\* are interleaved with the header checks and the appends of other ingestions.
C25_AsClaimed ==
    [][\A i \in Ing :
          pc[i] = "hdr_update" /\ pc'[i] # "hdr_update" =>
              \/ sheet' = sheet
              \/ FirstRowEmpty(sheet) /\ sheet' = <<HeaderRow>>]_vars

\* the value on the label's own line: what follows the separator of the first
\* occurrence of the label up to the end of that line, trimmed; "" when the
\* label does not occur
OwnLineValue(label, text) ==
    LET found == {p \in 1..Len(text) : SeparatorAt(label, text, p) # 0}
        first == CHOOSE p \in found : \A q \in found : p <= q
        sep == SeparatorAt(label, text, first)
    IN  IF found = {} THEN <<>>
        ELSE Strip(SubSeq(text, sep + 1, LineEnd(text, sep)))

\* C26 as stated: extraction takes the value of each field from the label's
\* own line only, so that a label with nothing after it on its line yields the
\* empty string, never text of the following line, and a message whose DATA or
\* VALOR has no value on its line is not processed.
C26_AsClaimed ==
    \A i \in Ing :
        inp[i].path = "message" =>
            /\ \A f \in DOMAIN FIELD_PATTERNS :
                  inp[i].fields[f] = OwnLineValue(FIELD_PATTERNS[f], inp[i].text)
            /\ (\E f \in {"DATA", "VALOR"} :
                    OwnLineValue(FIELD_PATTERNS[f], inp[i].text) = <<>>)
                  => outcome[i] = "dropped"

=============================================================================
